---- MODULE Spec2Model ----
(***************************************************************************)
(* Authorization and approval rule set of the society-management backend   *)
(* (backend_fastapi): society access check, society role resolution, the   *)
(* permission gate, society creation/approval and the membership           *)
(* join/approval workflow.                                                 *)
(*                                                                         *)
(* The state is the database: the tables users, societies and              *)
(* user_societies.  Every request handler is a pure operator, named as in  *)
(* the source, from the database and the request to its result: the HTTP   *)
(* status code, the response body and the tables the request leaves        *)
(* behind.  The action of a handler applies that result atomically.  ids   *)
(* counts the ids uuid4 has handed out, so that no id is ever used twice.  *)
(* in_flight holds the join_society requests that have made their          *)
(* existence check and not yet their insert; assets, amcs, issues and      *)
(* issue_comments are the tables of the society-scoped resources.  tokens  *)
(* holds the bearer tokens login has issued, which their holders keep.     *)
(***************************************************************************)
EXTENDS Integers, FiniteSets, Sequences, TLC

VARIABLES users, societies, user_societies, ids, in_flight,
          assets, amcs, issues, issue_comments, tokens

vars == <<users, societies, user_societies, ids, in_flight,
          assets, amcs, issues, issue_comments, tokens>>

---------------------------------------------------------------------------
(* Bounds of the model *)

MaxSocieties == 2
MaxRows == 3

SocietyIds == 1..MaxSocieties
RowIds == 1..MaxRows

(* Values *)

None == "None"
Unset == "Unset"
UserIds == {"dev", "u1", "u2"}
Roles == {"admin", "manager", "member"}
Statuses == {"pending", "approved", "rejected"}
Names == {"n1", "n2"}
Reasons == {None, "why"}

---------------------------------------------------------------------------
(* Row lookups (the select statements of the handlers) and fresh uuid4 ids *)

SocietyExists(s) == s \in DOMAIN societies

Mappings(u, s) == {m \in user_societies : m.user_id = u /\ m.society_id = s}

RowsById(id) == {m \in user_societies : m.id = id}

NewSocietyId == IF ids.society >= MaxSocieties THEN 0 ELSE ids.society + 1

NewRowId == IF ids.row >= MaxRows THEN 0 ELSE ids.row + 1

---------------------------------------------------------------------------
(* deps.py.  The checks answer with a status code: 200 where the source    *)
(* returns, the code of the HTTPException where it raises.                 *)

(* The dependency without its test of is_active *)
get_current_active_user_any_account(u) ==
    IF u \notin DOMAIN users THEN 404 ELSE 200

get_current_active_user(u) ==
    IF u \notin DOMAIN users THEN 404
    ELSE IF ~users[u].is_active THEN 403
    ELSE 200

(* check_society_access without the test of the society's own approval *)
check_society_access_membership_only(u, s) ==
    IF users[u].global_role = "developer" THEN 200
    ELSE IF ~SocietyExists(s) THEN 404
    ELSE IF Mappings(u, s) = {} THEN 403
    ELSE IF (CHOOSE m \in Mappings(u, s) : TRUE).approval_status # "approved" THEN 403
    ELSE 200

check_society_access(u, s) ==
    IF users[u].global_role = "developer" THEN 200
    ELSE IF ~SocietyExists(s) THEN 404
    ELSE IF societies[s].approval_status # "approved" THEN 403
    ELSE IF Mappings(u, s) = {} THEN 403
    ELSE IF (CHOOSE m \in Mappings(u, s) : TRUE).approval_status # "approved" THEN 403
    ELSE 200

(* get_user_society_role taking a global admin for an admin of every       *)
(* society, as it takes a developer                                        *)
get_user_society_role_global_admin(u, s) ==
    IF users[u].global_role \in {"developer", "admin"} THEN "admin"
    ELSE LET mapping == {m \in Mappings(u, s) : m.approval_status = "approved"}
         IN IF mapping = {} THEN None ELSE (CHOOSE m \in mapping : TRUE).role

get_user_society_role(u, s) ==
    IF users[u].global_role = "developer" THEN "admin"
    ELSE LET mapping == {m \in Mappings(u, s) : m.approval_status = "approved"}
         IN IF mapping = {} THEN None ELSE (CHOOSE m \in mapping : TRUE).role

(* require_society_permission looking at the role before the basic access *)
require_society_permission_role_first(u, s, allowed_roles) ==
    LET access == check_society_access(u, s)
        role == get_user_society_role(u, s)
    IN IF role = None \/ role \notin allowed_roles THEN 403
       ELSE access

require_society_permission(u, s, allowed_roles) ==
    LET access == check_society_access(u, s)
        role == get_user_society_role(u, s)
    IN IF access # 200 THEN access
       ELSE IF role = None \/ role \notin allowed_roles THEN 403
       ELSE 200

---------------------------------------------------------------------------
(* Results of a request *)

Raise(code) ==
    [code |-> code, body |-> {}, societies |-> societies,
     user_societies |-> user_societies]

Return(code, body) ==
    [code |-> code, body |-> body, societies |-> societies,
     user_societies |-> user_societies]

Commit(code, body, society_table, membership_table) ==
    [code |-> code, body |-> body, societies |-> society_table,
     user_societies |-> membership_table]

(* models.py: a row of a society-scoped table goes with its society        *)
(* (ondelete CASCADE, cascade="all, delete-orphan"), a comment with its    *)
(* issue.                                                                  *)
Cascade(table, society_table) ==
    {row \in table : row.society_id \in DOMAIN society_table}

Store(result) ==
    /\ societies' = result.societies
    /\ user_societies' = result.user_societies
    /\ assets' = Cascade(assets, result.societies)
    /\ amcs' = Cascade(amcs, result.societies)
    /\ issues' = Cascade(issues, result.societies)
    /\ issue_comments' =
          {c \in issue_comments :
              \E i \in Cascade(issues, result.societies) : i.id = c.issue_id}
    /\ UNCHANGED <<users, tokens>>
    /\ ids' = [society |-> IF DOMAIN result.societies \subseteq 1..ids.society
                            THEN ids.society ELSE ids.society + 1,
               row |-> IF {m.id : m \in result.user_societies} \subseteq 1..ids.row
                       THEN ids.row ELSE ids.row + 1]

Apply(result) == Store(result) /\ UNCHANGED in_flight

---------------------------------------------------------------------------
(* societies.py: create_society *)

(* create_society as its docstring has it: the creator's membership is     *)
(* pending until the society is approved                                   *)
create_society_pending_creator(u) ==
    LET auth == get_current_active_user(u)
        sid == NewSocietyId
        is_developer == users[u].global_role = "developer"
        new_society == [approval_status |-> IF is_developer THEN "approved" ELSE "pending",
                        approved_by |-> IF is_developer THEN u ELSE None]
        user_society == [id |-> NewRowId, user_id |-> u, society_id |-> sid,
                         role |-> "admin",
                         approval_status |-> IF is_developer THEN "approved" ELSE "pending",
                         approved_by |-> IF is_developer THEN u ELSE None,
                         rejection_reason |-> None]
    IN IF auth # 200 THEN Raise(auth)
       ELSE Commit(201, {sid},
                   [x \in DOMAIN societies \cup {sid} |->
                       IF x = sid THEN new_society ELSE societies[x]],
                   user_societies \cup {user_society})

create_society(u) ==
    LET auth == get_current_active_user(u)
        sid == NewSocietyId
        is_developer == users[u].global_role = "developer"
        new_society == [approval_status |-> IF is_developer THEN "approved" ELSE "pending",
                        approved_by |-> IF is_developer THEN u ELSE None]
        user_society == [id |-> NewRowId, user_id |-> u, society_id |-> sid,
                         role |-> "admin", approval_status |-> "approved",
                         approved_by |-> u, rejection_reason |-> None]
    IN IF auth # 200 THEN Raise(auth)
       ELSE Commit(201, {sid},
                   [x \in DOMAIN societies \cup {sid} |->
                       IF x = sid THEN new_society ELSE societies[x]],
                   user_societies \cup {user_society})

(* societies.py: approve_society *)

(* approve_society without the developer test of line 225 *)
approve_society_any_caller(u, s, approved) ==
    LET auth == get_current_active_user(u)
    IN IF auth # 200 THEN Raise(auth)
       ELSE IF ~SocietyExists(s) THEN Raise(404)
       ELSE IF societies[s].approval_status = "approved" THEN Raise(400)
       ELSE LET society == IF approved
                           THEN [societies[s] EXCEPT !.approval_status = "approved",
                                                     !.approved_by = u]
                           ELSE societies[s]
            IN Commit(200, {society}, [societies EXCEPT ![s] = society], user_societies)

(* approve_society storing a rejection when approved is false *)
approve_society_rejecting(u, s, approved) ==
    LET auth == get_current_active_user(u)
    IN IF auth # 200 THEN Raise(auth)
       ELSE IF users[u].global_role # "developer" THEN Raise(403)
       ELSE IF ~SocietyExists(s) THEN Raise(404)
       ELSE IF societies[s].approval_status = "approved" THEN Raise(400)
       ELSE LET society == IF approved
                           THEN [societies[s] EXCEPT !.approval_status = "approved",
                                                     !.approved_by = u]
                           ELSE [societies[s] EXCEPT !.approval_status = "rejected"]
            IN Commit(200, {society}, [societies EXCEPT ![s] = society], user_societies)

approve_society(u, s, approved) ==
    LET auth == get_current_active_user(u)
    IN IF auth # 200 THEN Raise(auth)
       ELSE IF users[u].global_role # "developer" THEN Raise(403)
       ELSE IF ~SocietyExists(s) THEN Raise(404)
       ELSE IF societies[s].approval_status = "approved" THEN Raise(400)
       ELSE LET society == IF approved
                           THEN [societies[s] EXCEPT !.approval_status = "approved",
                                                     !.approved_by = u]
                           ELSE societies[s]
            IN Commit(200, {society}, [societies EXCEPT ![s] = society], user_societies)

---------------------------------------------------------------------------
(* schemas/society.py: SocietyUpdate.  A request body is a record over the *)
(* keys a client may send; a key the schema does not declare is dropped by *)
(* validation, and model_dump(exclude_unset=True) keeps the declared keys  *)
(* that were sent.  name stands for the nine declared fields: plain data   *)
(* columns that no rule reads and the societies table of the model leaves  *)
(* out, so that an update writes the modelled columns only if the schema   *)
(* lets one through.                                                       *)

UpdateBodies == [name : Names \cup {Unset}, approval_status : {Unset, "pending"}]

(* SocietyUpdate declaring approval_status as a field *)
SocietyUpdate_with_status == {"name", "approval_status"}

SocietyUpdate == {"name"}

model_dump(body) == {f \in SocietyUpdate : body[f] # Unset}

(* societies.py: update_society *)

update_society(u, s, body) ==
    LET auth == get_current_active_user(u)
        perm == require_society_permission(u, s, {"admin"})
    IN IF auth # 200 THEN Raise(auth)
       ELSE IF perm # 200 THEN Raise(perm)
       ELSE IF ~SocietyExists(s) THEN Raise(404)
       ELSE LET update_data == model_dump(body)
                society == [f \in DOMAIN societies[s] |->
                              IF f \in update_data THEN body[f] ELSE societies[s][f]]
            IN Commit(200, {society}, [societies EXCEPT ![s] = society], user_societies)

(* societies.py: delete_society; models.py: the delete cascade of          *)
(* Society.user_societies                                                  *)

delete_society(u, s) ==
    LET auth == get_current_active_user(u)
        perm == require_society_permission(u, s, {"admin"})
    IN IF auth # 200 THEN Raise(auth)
       ELSE IF perm # 200 THEN Raise(perm)
       ELSE IF ~SocietyExists(s) THEN Raise(404)
       ELSE Commit(204, {},
                   [x \in DOMAIN societies \ {s} |-> societies[x]],
                   {m \in user_societies : m.society_id # s})

---------------------------------------------------------------------------
(* societies.py: join_society *)

JoinRoles == Roles \cup {"owner"}

(* rerequest answering with a row of its own in the place of the old one *)
rerequest_as_new_row(existing) ==
    [f \in DOMAIN existing \cup {"rejected_at", "rejected_by"} |->
        IF f = "approval_status" THEN "pending"
        ELSE IF f \in {"rejected_at", "rejected_by"} THEN None
        ELSE IF f = "id" THEN NewRowId
        ELSE existing[f]]

(* existing_case refusing an approved row only *)
existing_case_approved_only(approval_status) ==
    IF approval_status = "approved" THEN "member" ELSE "re-request"

(* existing_case with the approved branch lost and the last one an else *)
existing_case_else(approval_status) ==
    IF approval_status = "pending" THEN "requested" ELSE "re-request"

(* The branch lines 507-518 take for the status of the caller's row *)
existing_case(approval_status) ==
    IF approval_status = "approved" THEN "member"
    ELSE IF approval_status = "pending" THEN "requested"
    ELSE IF approval_status = "rejected" THEN "re-request"
    ELSE "none"

(* rerequest taking the default role of a join request for the row *)
rerequest_as_member(existing) ==
    [f \in DOMAIN existing \cup {"rejected_at", "rejected_by"} |->
        IF f = "approval_status" THEN "pending"
        ELSE IF f \in {"rejected_at", "rejected_by"} THEN None
        ELSE IF f = "role" THEN "member"
        ELSE existing[f]]

(* The session's object of a rejected row after lines 520-522.             *)
(* rejected_at and rejected_by are attributes of the object only:          *)
(* UserSociety has no such columns.  rejection_reason is not assigned.     *)
rerequest(existing) ==
    [f \in DOMAIN existing \cup {"rejected_at", "rejected_by"} |->
        IF f = "approval_status" THEN "pending"
        ELSE IF f \in {"rejected_at", "rejected_by"} THEN None
        ELSE existing[f]]

(* models.py: the columns of UserSociety that a commit writes *)
UserSocietyColumns ==
    {"id", "user_id", "society_id", "role", "approval_status", "approved_by",
     "rejection_reason"}

flushed(object) == [f \in UserSocietyColumns |-> object[f]]

(* insert_membership without the unique constraint of the table *)
insert_membership_unconstrained(row) ==
    IF ~SocietyExists(row.society_id) THEN Raise(500)
    ELSE Commit(201, {row}, societies, user_societies \cup {row})

(* models.py: uq_user_society rejects a second row of a user in a society, *)
(* the foreign key a row of a society that is gone: the commit raises      *)
(* IntegrityError, which no handler catches.                               *)
insert_membership(row) ==
    IF Mappings(row.user_id, row.society_id) # {} THEN Raise(500)
    ELSE IF ~SocietyExists(row.society_id) THEN Raise(500)
    ELSE Commit(201, {row}, societies, user_societies \cup {row})

join_society(u, s, role) ==
    LET auth == get_current_active_user(u)
        existing == Mappings(u, s)
        e == CHOOSE m \in existing : TRUE
        again == rerequest(e)
        user_society == [id |-> NewRowId, user_id |-> u,
                         society_id |-> s, role |-> role,
                         approval_status |-> "pending",
                         approved_by |-> None, rejection_reason |-> None]
    IN IF auth # 200 THEN Raise(auth)
       ELSE IF ~SocietyExists(s) THEN Raise(404)
       ELSE IF societies[s].approval_status # "approved"
               /\ users[u].global_role # "developer" THEN Raise(403)
       ELSE IF existing # {}
               /\ existing_case(e.approval_status) \in {"member", "requested"}
       THEN Raise(400)
       ELSE IF existing # {} /\ existing_case(e.approval_status) = "re-request"
       THEN Commit(201, {again}, societies,
                   (user_societies \ {e}) \cup {flushed(again)})
       ELSE IF role \notin Roles THEN Raise(400)
       ELSE insert_membership(user_society)

---------------------------------------------------------------------------
(* schemas/society.py: ApprovalRequest, without user_society_id.  The      *)
(* handler reads rejection_reason only when approved is false.             *)

Decisions ==
    {[approved |-> TRUE, rejection_reason |-> None]}
    \cup [approved : {FALSE}, rejection_reason : Reasons]

(* societies.py: approve_member *)

(* can_approve as a flat admin-or-manager check *)
can_approve_flat(global_role, approver_role, requested_role) ==
    IF global_role = "developer" THEN TRUE
    ELSE IF requested_role = "admin" THEN FALSE
    ELSE approver_role \in {"admin", "manager"}

can_approve(global_role, approver_role, requested_role) ==
    IF global_role = "developer" THEN TRUE
    ELSE IF requested_role = "admin" THEN FALSE
    ELSE IF requested_role = "manager" THEN approver_role = "admin"
    ELSE IF requested_role = "member" THEN approver_role \in {"admin", "manager"}
    ELSE FALSE

(* decidable letting a rejected membership be decided again *)
decidable_unless_approved(approval_status) == approval_status # "approved"

(* Line 690: only a pending membership is decided *)
decidable(approval_status) == approval_status = "pending"

(* The membership object of the request's session after lines 696-707.     *)
(* rejected_by and rejected_at are no columns of UserSociety.              *)
decide(membership, u, approved, reason) ==
    IF approved
    THEN [membership EXCEPT !.approval_status = "approved", !.approved_by = u]
    ELSE [membership EXCEPT !.approval_status = "rejected",
                            !.rejection_reason = IF reason # None THEN reason ELSE @]

(* The row the request leaves in the table.  Line 709, in the place of the *)
(* handler's commit, is no statement (it assigns to an await expression),  *)
(* so the handler issues no commit: get_session closes the session and the *)
(* assignments of lines 696-707 are rolled back.  The response of line 711 *)
(* is built from the session's object.                                     *)
stored_by_approve_member(membership, updated) == membership

approve_member(u, s, id, approved, reason) ==
    LET auth == get_current_active_user(u)
        found == RowsById(id)
    IN IF auth # 200 THEN Raise(auth)
       ELSE IF found = {} THEN Raise(404)
       ELSE LET membership == CHOOSE m \in found : TRUE
                approver_role == get_user_society_role(u, s)
            IN IF ~can_approve(users[u].global_role, approver_role, membership.role)
               THEN Raise(403)
               ELSE IF ~decidable(membership.approval_status) THEN Raise(400)
               ELSE LET updated == decide(membership, u, approved, reason)
                    IN Commit(200, {updated}, societies,
                              (user_societies \ {membership})
                                 \cup {stored_by_approve_member(membership, updated)})

---------------------------------------------------------------------------
(* Reads *)

StatusFilters == {None, "pending"}

list_societies(u) ==
    LET auth == get_current_active_user(u)
    IN IF auth # 200 THEN Raise(auth)
       ELSE IF users[u].global_role = "developer" THEN Return(200, DOMAIN societies)
       ELSE Return(200, {x \in DOMAIN societies :
                           /\ societies[x].approval_status = "approved"
                           /\ \E m \in Mappings(u, x) : m.approval_status = "approved"})

get_society_members(u, s, status_filter) ==
    LET auth == get_current_active_user(u)
    IN IF auth # 200 THEN Raise(auth)
       ELSE Return(200, {m \in user_societies :
                           /\ m.society_id = s
                           /\ status_filter # None => m.approval_status = status_filter})

---------------------------------------------------------------------------
(* The requests.  A request that inserts a row is not taken once the ids   *)
(* of the model are used up.                                               *)

CreateSociety(u) ==
    /\ NewSocietyId # 0
    /\ NewRowId # 0
    /\ Apply(create_society(u))

ApproveSociety(u, s, approved) == Apply(approve_society(u, s, approved))

UpdateSociety(u, s, body) == Apply(update_society(u, s, body))

DeleteSociety(u, s) == Apply(delete_society(u, s))

JoinSociety(u, s, role) ==
    /\ \A m \in join_society(u, s, role).user_societies : m.id # 0
    /\ Apply(join_society(u, s, role))

ApproveMember(u, s, id, approved, reason) ==
    Apply(approve_member(u, s, id, approved, reason))

ListSocieties(u) == Apply(list_societies(u))

GetSocietyMembers(u, s, status_filter) ==
    Apply(get_society_members(u, s, status_filter))

---------------------------------------------------------------------------
(* The database a deployment starts from: empty, or holding society 1,     *)
(* created and so approved by dev, with at most one membership of u1 that  *)
(* the table already holds decided: approved by dev, or rejected, in any   *)
(* role (the rows join_society reads at lines 507-525).                    *)

Row(id, u, s, role, st, by, reason) ==
    [id |-> id, user_id |-> u, society_id |-> s, role |-> role,
     approval_status |-> st, approved_by |-> by, rejection_reason |-> reason]

SeedMemberships ==
    {Row(2, "u1", 1, r, "approved", "dev", None) : r \in Roles}
    \cup {Row(2, "u1", 1, r, "rejected", None, rr) : r \in Roles, rr \in Reasons}

Users0 ==
    [u \in UserIds |->
        [global_role |-> CASE u = "dev" -> "developer"
                           [] u = "u1" -> "member"
                           [] u = "u2" -> "admin"
                           [] OTHER -> "manager",
         is_active |-> TRUE,
         full_name |-> "n1"]]

NoResources ==
    /\ in_flight = {}
    /\ tokens = {}
    /\ assets = {}
    /\ amcs = {}
    /\ issues = {}
    /\ issue_comments = {}

Init ==
    /\ users = Users0
    /\ NoResources
    /\ \/ /\ societies = [x \in {} |-> None]
          /\ user_societies = {}
          /\ ids = [society |-> 0, row |-> 0]
       \/ /\ societies = [x \in {1} |-> [approval_status |-> "approved",
                                         approved_by |-> "dev"]]
          /\ \E seed \in SUBSET SeedMemberships :
                /\ Cardinality(seed) <= 1
                /\ ids = [society |-> 1, row |-> 1 + Cardinality(seed)]
                /\ user_societies =
                      {Row(1, "dev", 1, "admin", "approved", "dev", None)} \cup seed

Next ==
    \/ \E u \in UserIds : CreateSociety(u)
    \/ \E u \in UserIds, s \in SocietyIds, approved \in BOOLEAN :
          ApproveSociety(u, s, approved)
    \/ \E u \in UserIds, s \in SocietyIds, body \in UpdateBodies :
          UpdateSociety(u, s, body)
    \/ \E u \in UserIds, s \in SocietyIds : DeleteSociety(u, s)
    \/ \E u \in UserIds, s \in SocietyIds, role \in JoinRoles : JoinSociety(u, s, role)
    \/ \E u \in UserIds, s \in SocietyIds, id \in RowIds, d \in Decisions :
          ApproveMember(u, s, id, d.approved, d.rejection_reason)
    \/ \E u \in UserIds : ListSocieties(u)
    \/ \E u \in UserIds, s \in SocietyIds, f \in StatusFilters :
          GetSocietyMembers(u, s, f)

Spec == Init /\ [][Next]_vars

---------------------------------------------------------------------------
(* join_society as the two database steps it is: the select of line 497    *)
(* and the commit of line 546, with the requests of other sessions in      *)
(* between.  A request is in flight from its select, which found no row of *)
(* the caller in the society, to its insert.                               *)

Requests == {"r1", "r2"}

RaceRoles == {"member", "admin"}

JoinSocietyCheck(q, u, s, role) ==
    /\ \A r \in in_flight : r.request # q
    /\ Mappings(u, s) = {}
    /\ join_society(u, s, role).code = 201
    /\ in_flight' = in_flight \cup
          {[request |-> q, user_id |-> u, society_id |-> s, role |-> role]}
    /\ UNCHANGED <<users, tokens, societies, user_societies, ids,
                   assets, amcs, issues, issue_comments>>

JoinSocietyInsert(r) ==
    /\ r \in in_flight
    /\ NewRowId # 0
    /\ Store(insert_membership(
                [id |-> NewRowId, user_id |-> r.user_id,
                 society_id |-> r.society_id, role |-> r.role,
                 approval_status |-> "pending",
                 approved_by |-> None, rejection_reason |-> None]))
    /\ in_flight' = in_flight \ {r}

NextRace ==
    \/ \E u \in UserIds : CreateSociety(u)
    \/ \E u \in UserIds, s \in SocietyIds : DeleteSociety(u, s)
    \/ \E u \in UserIds, s \in SocietyIds, role \in RaceRoles : JoinSociety(u, s, role)
    \/ \E q \in Requests, u \in UserIds, s \in SocietyIds, role \in RaceRoles :
          JoinSocietyCheck(q, u, s, role)
    \/ \E r \in in_flight : JoinSocietyInsert(r)

SpecRace == Init /\ [][NextRace]_vars

---------------------------------------------------------------------------
(* assets.py.  An asset is its id, its society and name, which stands for  *)
(* the data columns an update may write.  asset_categories holds c1.       *)

AssetIds == {"a1"}

asset_categories == {"c1"}

Categories == {"c1", "cx"}

AssetsById(id) == {a \in assets : a.id = id}

NewAssetId ==
    IF AssetIds \subseteq {a.id : a \in assets} THEN None
    ELSE CHOOSE id \in AssetIds : AssetsById(id) = {}

AssetResult(code, body, table) == [code |-> code, body |-> body, assets |-> table]

ApplyAssets(result) ==
    /\ assets' = result.assets
    /\ UNCHANGED <<users, tokens, societies, user_societies, ids, in_flight,
                   amcs, issues, issue_comments>>

AssetCreate == [society_id : SocietyIds, category_id : Categories, name : {"n1"}]

AssetUpdate == [name : Names \cup {Unset}, category_id : Categories \cup {Unset}]

(* Lines 171-177 and 274-280: the roles that create and update assets *)
asset_write_roles == {"admin", "manager"}

(* delete_asset open to managers as create and update are *)
asset_delete_roles_with_manager == {"admin", "manager"}

(* Lines 335-341: the roles that delete assets *)
asset_delete_roles == {"admin"}

create_asset(u, asset) ==
    LET auth == get_current_active_user(u)
        perm == require_society_permission(u, asset.society_id, asset_write_roles)
        new_asset == [id |-> NewAssetId, society_id |-> asset.society_id,
                      name |-> asset.name]
    IN IF auth # 200 THEN AssetResult(auth, {}, assets)
       ELSE IF perm # 200 THEN AssetResult(perm, {}, assets)
       ELSE IF asset.category_id \notin asset_categories THEN AssetResult(404, {}, assets)
       ELSE IF ~SocietyExists(asset.society_id) THEN AssetResult(500, {}, assets)
       ELSE AssetResult(201, {new_asset}, assets \cup {new_asset})

update_asset(u, id, asset_update) ==
    LET auth == get_current_active_user(u)
        found == AssetsById(id)
        asset == CHOOSE a \in found : TRUE
        perm == require_society_permission(u, asset.society_id, asset_write_roles)
        updated == [asset EXCEPT !.name = IF asset_update.name # Unset
                                          THEN asset_update.name ELSE @]
    IN IF auth # 200 THEN AssetResult(auth, {}, assets)
       ELSE IF found = {} THEN AssetResult(404, {}, assets)
       ELSE IF perm # 200 THEN AssetResult(perm, {}, assets)
       ELSE IF asset_update.category_id \notin asset_categories \cup {Unset}
       THEN AssetResult(404, {}, assets)
       ELSE AssetResult(200, {updated}, (assets \ {asset}) \cup {updated})

delete_asset(u, id) ==
    LET auth == get_current_active_user(u)
        found == AssetsById(id)
        asset == CHOOSE a \in found : TRUE
        perm == require_society_permission(u, asset.society_id, asset_delete_roles)
    IN IF auth # 200 THEN AssetResult(auth, {}, assets)
       ELSE IF found = {} THEN AssetResult(404, {}, assets)
       ELSE IF perm # 200 THEN AssetResult(perm, {}, assets)
       ELSE AssetResult(204, {}, assets \ {asset})

(* The society_id query parameter of the list requests; 0 is the request  *)
(* without it.                                                             *)
SocietyFilters == 0..MaxSocieties

(* Lines 116-131: with a society id the access check, without one the      *)
(* societies of the caller's approved rows                                 *)
list_assets(u, society_id) ==
    LET auth == get_current_active_user(u)
        access == check_society_access(u, society_id)
        society_ids == {m.society_id : m \in {n \in user_societies :
                           n.user_id = u /\ n.approval_status = "approved"}}
    IN IF auth # 200 THEN AssetResult(auth, {}, assets)
       ELSE IF society_id # 0
       THEN IF access # 200 THEN AssetResult(access, {}, assets)
            ELSE AssetResult(200, {a \in assets : a.society_id = society_id}, assets)
       ELSE AssetResult(200, {a \in assets : a.society_id \in society_ids}, assets)

get_asset(u, id) ==
    LET auth == get_current_active_user(u)
        found == AssetsById(id)
        asset == CHOOSE a \in found : TRUE
        access == check_society_access(u, asset.society_id)
    IN IF auth # 200 THEN AssetResult(auth, {}, assets)
       ELSE IF found = {} THEN AssetResult(404, {}, assets)
       ELSE IF access # 200 THEN AssetResult(access, {}, assets)
       ELSE AssetResult(200, {asset}, assets)

CreateAsset(u, asset) ==
    /\ NewAssetId # None
    /\ ApplyAssets(create_asset(u, asset))

UpdateAsset(u, id, asset_update) == ApplyAssets(update_asset(u, id, asset_update))

DeleteAsset(u, id) == ApplyAssets(delete_asset(u, id))

ListAssets(u, society_id) == ApplyAssets(list_assets(u, society_id))

GetAsset(u, id) == ApplyAssets(get_asset(u, id))

---------------------------------------------------------------------------
(* amcs.py.  An AMC is its id, its society and vendor_name, which stands   *)
(* for the data columns.  The membership queries of this file filter on    *)
(* UserSociety.status, which models.py does not define: building such a    *)
(* statement raises AttributeError and the request ends in a 500.          *)

AmcIds == {"m1"}

AmcsById(id) == {a \in amcs : a.id = id}

AmcResult(code, body, table) == [code |-> code, body |-> body, amcs |-> table]

ApplyAmcs(result) ==
    /\ amcs' = result.amcs
    /\ UNCHANGED <<users, tokens, societies, user_societies, ids, in_flight,
                   assets, issues, issue_comments>>

AMCCreate == [society_id : SocietyIds, vendor_name : {"n1"}]

AMCUpdate == [vendor_name : Names \cup {Unset}]

(* Lines 96-126.  A non-developer reaches the statement of lines 98-105; a *)
(* developer reaches line 114, which reads amc.asset_id, no field of       *)
(* AMCCreate: AttributeError again.                                        *)
create_amc(u, amc) ==
    LET auth == get_current_active_user(u)
    IN IF auth # 200 THEN AmcResult(auth, {}, amcs)
       ELSE IF users[u].global_role # "developer" THEN AmcResult(500, {}, amcs)
       ELSE AmcResult(500, {}, amcs)

update_amc(u, id, amc_update) ==
    LET auth == get_current_active_user(u)
        found == AmcsById(id)
        amc == CHOOSE a \in found : TRUE
        updated == [amc EXCEPT !.vendor_name = IF amc_update.vendor_name # Unset
                                               THEN amc_update.vendor_name ELSE @]
    IN IF auth # 200 THEN AmcResult(auth, {}, amcs)
       ELSE IF found = {} THEN AmcResult(404, {}, amcs)
       ELSE IF users[u].global_role # "developer" THEN AmcResult(500, {}, amcs)
       ELSE AmcResult(200, {updated}, (amcs \ {amc}) \cup {updated})

delete_amc(u, id) ==
    LET auth == get_current_active_user(u)
        found == AmcsById(id)
        amc == CHOOSE a \in found : TRUE
    IN IF auth # 200 THEN AmcResult(auth, {}, amcs)
       ELSE IF found = {} THEN AmcResult(404, {}, amcs)
       ELSE IF users[u].global_role # "developer" THEN AmcResult(500, {}, amcs)
       ELSE AmcResult(204, {}, amcs \ {amc})

(* Line 48 calls check_society_access without its db argument (TypeError); *)
(* lines 52-57 filter on UserSociety.status.                               *)
list_amcs(u, society_id) ==
    LET auth == get_current_active_user(u)
    IN IF auth # 200 THEN AmcResult(auth, {}, amcs)
       ELSE IF society_id # 0 THEN AmcResult(500, {}, amcs)
       ELSE AmcResult(500, {}, amcs)

(* Lines 181-187 filter on UserSociety.status for every caller *)
get_amc(u, id) ==
    LET auth == get_current_active_user(u)
        found == AmcsById(id)
    IN IF auth # 200 THEN AmcResult(auth, {}, amcs)
       ELSE IF found = {} THEN AmcResult(404, {}, amcs)
       ELSE AmcResult(500, {}, amcs)

CreateAmc(u, amc) == ApplyAmcs(create_amc(u, amc))

UpdateAmc(u, id, amc_update) == ApplyAmcs(update_amc(u, id, amc_update))

DeleteAmc(u, id) == ApplyAmcs(delete_amc(u, id))

ListAmcs(u, society_id) == ApplyAmcs(list_amcs(u, society_id))

GetAmc(u, id) == ApplyAmcs(get_amc(u, id))

---------------------------------------------------------------------------
(* The databases the resource requests start from.  Society 1 is approved, *)
(* created by dev; society 2, if there, is pending, created by u2.  u1 has *)
(* no row in society 1, or an approved one in any role, or a pending       *)
(* request; u2 has no row in society 1 or an approved one in any role.     *)

ResourceSocieties ==
    {[x \in {1} |-> [approval_status |-> "approved", approved_by |-> "dev"]],
     [x \in {1, 2} |-> IF x = 1
                       THEN [approval_status |-> "approved", approved_by |-> "dev"]
                       ELSE [approval_status |-> "pending", approved_by |-> None]]}

ResourceSeeds(u, id) ==
    {{}} \cup {{Row(id, u, 1, r, "approved", "dev", None)} : r \in Roles}

InitResources ==
    /\ in_flight = {}
    /\ tokens = {}
    /\ societies \in ResourceSocieties
    /\ ids = [society |-> Cardinality(DOMAIN societies), row |-> 4]
    /\ \E seed1 \in ResourceSeeds("u1", 3)
                      \cup {{Row(3, "u1", 1, "manager", "pending", None, None)}},
          seed2 \in ResourceSeeds("u2", 4) :
          user_societies =
              {Row(1, "dev", 1, "admin", "approved", "dev", None)}
              \cup {Row(2, "u2", s, "admin", "approved", "u2", None) :
                       s \in DOMAIN societies \ {1}}
              \cup seed1 \cup seed2

InitAssets ==
    /\ users = Users0
    /\ InitResources
    /\ assets = {}
    /\ amcs \in {{}, {[id |-> "m1", society_id |-> 1, vendor_name |-> "n1"]}}
    /\ issues = {}
    /\ issue_comments = {}

NextAssets ==
    \/ \E u \in UserIds, asset \in AssetCreate : CreateAsset(u, asset)
    \/ \E u \in UserIds, id \in AssetIds, asset_update \in AssetUpdate :
          UpdateAsset(u, id, asset_update)
    \/ \E u \in UserIds, id \in AssetIds : DeleteAsset(u, id)
    \/ \E u \in UserIds, s \in SocietyFilters : ListAssets(u, s)
    \/ \E u \in UserIds, id \in AssetIds : GetAsset(u, id)
    \/ \E u \in UserIds, amc \in AMCCreate : CreateAmc(u, amc)
    \/ \E u \in UserIds, id \in AmcIds, amc_update \in AMCUpdate :
          UpdateAmc(u, id, amc_update)
    \/ \E u \in UserIds, id \in AmcIds : DeleteAmc(u, id)
    \/ \E u \in UserIds, s \in SocietyFilters : ListAmcs(u, s)
    \/ \E u \in UserIds, id \in AmcIds : GetAmc(u, id)
    \/ \E u \in UserIds, s \in SocietyIds, body \in UpdateBodies :
          UpdateSociety(u, s, body)
    \/ \E u \in UserIds, s \in SocietyIds : DeleteSociety(u, s)

SpecAssets == InitAssets /\ [][NextAssets]_vars

---------------------------------------------------------------------------
(* issues.py.  An issue is its id, its society, reported_by, assigned_to   *)
(* and status; a comment its id, its issue and its author.                 *)

IssueIds == {"i1"}

CommentIds == {"k1"}

IssueStatuses == {"open", "resolved"}

IssuesById(id) == {i \in issues : i.id = id}

NewIssueId ==
    IF IssueIds \subseteq {i.id : i \in issues} THEN None
    ELSE CHOOSE id \in IssueIds : IssuesById(id) = {}

NewCommentId ==
    IF CommentIds \subseteq {c.id : c \in issue_comments} THEN None
    ELSE CHOOSE id \in CommentIds : id \notin {c.id : c \in issue_comments}

IssueResult(code, body, issue_table, comment_table) ==
    [code |-> code, body |-> body, issues |-> issue_table,
     issue_comments |-> comment_table]

IssueRaise(code) == IssueResult(code, {}, issues, issue_comments)

ApplyIssues(result) ==
    /\ issues' = result.issues
    /\ issue_comments' = result.issue_comments
    /\ UNCHANGED <<users, tokens, societies, user_societies, ids, in_flight, assets, amcs>>

IssueCreate == [society_id : SocietyIds]

IssueUpdate == [assigned_to : UserIds \cup {Unset}, status : IssueStatuses \cup {Unset}]

(* Lines 302-314 and 357-370: the caller's approved row in the issue's     *)
(* society, or a developer                                                 *)
issue_comment_access(u, s) ==
    IF {m \in Mappings(u, s) : m.approval_status = "approved"} = {}
       /\ users[u].global_role # "developer"
    THEN 403 ELSE 200

list_issues(u, society_id) ==
    LET auth == get_current_active_user(u)
        access == check_society_access(u, society_id)
        society_ids == {m.society_id : m \in {n \in user_societies :
                           n.user_id = u /\ n.approval_status = "approved"}}
    IN IF auth # 200 THEN IssueRaise(auth)
       ELSE IF society_id # 0
       THEN IF access # 200 THEN IssueRaise(access)
            ELSE IssueResult(200, {i \in issues : i.society_id = society_id},
                             issues, issue_comments)
       ELSE IssueResult(200, {i \in issues : i.society_id \in society_ids},
                        issues, issue_comments)

create_issue(u, issue) ==
    LET auth == get_current_active_user(u)
        access == check_society_access(u, issue.society_id)
        new_issue == [id |-> NewIssueId, society_id |-> issue.society_id,
                      reported_by |-> u, assigned_to |-> None, status |-> "open",
                      resolved_date |-> None]
    IN IF auth # 200 THEN IssueRaise(auth)
       ELSE IF ~SocietyExists(issue.society_id) THEN IssueRaise(404)
       ELSE IF access # 200 THEN IssueRaise(access)
       ELSE IssueResult(201, {new_issue}, issues \cup {new_issue}, issue_comments)

get_issue(u, id) ==
    LET auth == get_current_active_user(u)
        found == IssuesById(id)
        issue == CHOOSE i \in found : TRUE
        access == check_society_access(u, issue.society_id)
    IN IF auth # 200 THEN IssueRaise(auth)
       ELSE IF found = {} THEN IssueRaise(404)
       ELSE IF access # 200 THEN IssueRaise(access)
       ELSE IssueResult(200, {issue}, issues, issue_comments)

(* update_issue without the assignee's right *)
may_update_issue_without_assignee(u, issue) ==
    \/ issue.reported_by = u
    \/ get_user_society_role(u, issue.society_id) \in {"admin", "manager"}

(* Lines 196-203 *)
may_update_issue(u, issue) ==
    \/ issue.reported_by = u
    \/ issue.assigned_to # None /\ issue.assigned_to = u
    \/ get_user_society_role(u, issue.society_id) \in {"admin", "manager"}

(* The value of datetime.utcnow() *)
utcnow == "t1"

(* update_data without the date of the resolution *)
issue_update_data_without_date(issue, issue_update) ==
    {f \in DOMAIN issue_update : issue_update[f] # Unset}

(* Lines 212-216: the fields of the body that were sent, and               *)
(* resolved_date when the status sent is resolved and the stored one is    *)
(* not                                                                     *)
issue_update_data(issue, issue_update) ==
    LET sent == {f \in DOMAIN issue_update : issue_update[f] # Unset}
    IN IF "status" \in sent /\ issue_update.status = "resolved"
          /\ issue.status # "resolved"
       THEN sent \cup {"resolved_date"}
       ELSE sent

update_issue(u, id, issue_update) ==
    LET auth == get_current_active_user(u)
        found == IssuesById(id)
        issue == CHOOSE i \in found : TRUE
        fields == issue_update_data(issue, issue_update)
        updated == [f \in DOMAIN issue |->
                       IF f \notin fields THEN issue[f]
                       ELSE IF f = "resolved_date" THEN utcnow
                       ELSE issue_update[f]]
    IN IF auth # 200 THEN IssueRaise(auth)
       ELSE IF found = {} THEN IssueRaise(404)
       ELSE IF ~may_update_issue(u, issue) THEN IssueRaise(403)
       ELSE IssueResult(200, {updated}, (issues \ {issue}) \cup {updated},
                        issue_comments)

(* delete_issue open to managers as update_issue is *)
may_delete_issue_with_manager(u, issue) ==
    \/ issue.reported_by = u
    \/ get_user_society_role(u, issue.society_id) \in {"admin", "manager"}

(* Lines 255-260 *)
may_delete_issue(u, issue) ==
    \/ issue.reported_by = u
    \/ get_user_society_role(u, issue.society_id) = "admin"

delete_issue(u, id) ==
    LET auth == get_current_active_user(u)
        found == IssuesById(id)
        issue == CHOOSE i \in found : TRUE
    IN IF auth # 200 THEN IssueRaise(auth)
       ELSE IF found = {} THEN IssueRaise(404)
       ELSE IF ~may_delete_issue(u, issue) THEN IssueRaise(403)
       ELSE IssueResult(204, {}, issues \ {issue},
                        {c \in issue_comments : c.issue_id # id})

add_comment(u, id) ==
    LET auth == get_current_active_user(u)
        found == IssuesById(id)
        issue == CHOOSE i \in found : TRUE
        access == issue_comment_access(u, issue.society_id)
        new_comment == [id |-> NewCommentId, issue_id |-> id, user_id |-> u]
    IN IF auth # 200 THEN IssueRaise(auth)
       ELSE IF found = {} THEN IssueRaise(404)
       ELSE IF access # 200 THEN IssueRaise(access)
       ELSE IssueResult(201, {new_comment}, issues, issue_comments \cup {new_comment})

get_comments(u, id) ==
    LET auth == get_current_active_user(u)
        found == IssuesById(id)
        issue == CHOOSE i \in found : TRUE
        access == issue_comment_access(u, issue.society_id)
    IN IF auth # 200 THEN IssueRaise(auth)
       ELSE IF found = {} THEN IssueRaise(404)
       ELSE IF access # 200 THEN IssueRaise(access)
       ELSE IssueResult(200, {c \in issue_comments : c.issue_id = id},
                        issues, issue_comments)

ListIssues(u, society_id) == ApplyIssues(list_issues(u, society_id))

CreateIssue(u, issue) ==
    /\ NewIssueId # None
    /\ ApplyIssues(create_issue(u, issue))

GetIssue(u, id) == ApplyIssues(get_issue(u, id))

UpdateIssue(u, id, issue_update) == ApplyIssues(update_issue(u, id, issue_update))

DeleteIssue(u, id) == ApplyIssues(delete_issue(u, id))

AddComment(u, id) ==
    /\ NewCommentId # None
    /\ ApplyIssues(add_comment(u, id))

GetComments(u, id) == ApplyIssues(get_comments(u, id))

(* The issue requests over the resource databases, with the asset and AMC  *)
(* requests and the society requests that change what a caller may do.     *)
InitIssues ==
    /\ users = Users0
    /\ InitResources
    /\ assets = {}
    /\ amcs = {}
    /\ issues = {}
    /\ issue_comments = {}

NextIssues ==
    \/ \E u \in UserIds, s \in SocietyFilters : ListIssues(u, s)
    \/ \E u \in UserIds, issue \in IssueCreate : CreateIssue(u, issue)
    \/ \E u \in UserIds, id \in IssueIds : GetIssue(u, id)
    \/ \E u \in UserIds, id \in IssueIds, issue_update \in IssueUpdate :
          UpdateIssue(u, id, issue_update)
    \/ \E u \in UserIds, id \in IssueIds : DeleteIssue(u, id)
    \/ \E u \in UserIds, id \in IssueIds : AddComment(u, id)
    \/ \E u \in UserIds, id \in IssueIds : GetComments(u, id)
    \/ NextAssets

SpecIssues == InitIssues /\ [][NextIssues]_vars

(* The global roles of the two users other than dev: any two different     *)
(* ones of admin, manager and member (User.global_role, set at signup and  *)
(* by no request of the API afterwards).                                   *)
GlobalRoles ==
    {[Users0 EXCEPT !["u1"].global_role = r1, !["u2"].global_role = r2] :
        <<r1, r2>> \in {<<"member", "admin">>, <<"manager", "admin">>,
                        <<"member", "manager">>}}

(* The society-scoped requests for callers of every global role: society  *)
(* 1, approved, in which u1 and u2 each hold no row or an approved one in  *)
(* any role.                                                               *)
InitGlobalRoles ==
    /\ users \in GlobalRoles
    /\ in_flight = {}
    /\ tokens = {}
    /\ societies = [x \in {1} |-> [approval_status |-> "approved", approved_by |-> "dev"]]
    /\ ids = [society |-> 1, row |-> 4]
    /\ \E seed1 \in ResourceSeeds("u1", 3), seed2 \in ResourceSeeds("u2", 4) :
          user_societies =
              {Row(1, "dev", 1, "admin", "approved", "dev", None)} \cup seed1 \cup seed2
    /\ assets = {}
    /\ amcs = {}
    /\ issues = {}
    /\ issue_comments = {}

NextGlobalRoles ==
    \/ \E u \in UserIds, s \in SocietyIds, m \in user_societies, d \in Decisions :
          ApproveMember(u, s, m.id, d.approved, d.rejection_reason)
    \/ NextIssues

SpecGlobalRoles == InitGlobalRoles /\ [][NextGlobalRoles]_vars

---------------------------------------------------------------------------
(* auth.py and users.py: the bearer tokens and the is_active flag.  A      *)
(* token is its subject and its type; the tokens that decode are the ones  *)
(* login issued (security.py signs them, and a client keeps them whatever  *)
(* becomes of its account).                                                *)

TokenTypes == {"access", "refresh"}

Tokens == [sub : UserIds, type : TokenTypes]

NoPayload == [sub |-> None, type |-> None]

decode_token(token) == IF token \in tokens THEN token ELSE NoPayload

AuthResult(code, body, user_table) == [code |-> code, body |-> body, users |-> user_table]

(* deps.py 41-70 and 87-106: the Depends chain of every authenticated      *)
(* request                                                                 *)
get_current_user(token) ==
    LET payload == decode_token(token)
    IN IF payload = NoPayload THEN 401
       ELSE get_current_active_user(payload.sub)

(* Lines 135-160: password_ok is verify_password of the request's password *)
login(u, password_ok) ==
    IF u \notin DOMAIN users THEN AuthResult(401, {}, users)
    ELSE IF ~password_ok THEN AuthResult(401, {}, users)
    ELSE IF ~users[u].is_active THEN AuthResult(403, {}, users)
    ELSE AuthResult(200, {[sub |-> u, type |-> t] : t \in TokenTypes}, users)

refresh_token(token) ==
    LET payload == decode_token(token)
    IN IF payload = NoPayload THEN AuthResult(401, {}, users)
       ELSE IF payload.sub \notin DOMAIN users \/ ~users[payload.sub].is_active
       THEN AuthResult(401, {}, users)
       ELSE AuthResult(200, {[sub |-> payload.sub, type |-> "access"]}, users)

(* The request body of update_user: set holds the fields the request sets  *)
(* (model_dump(exclude_unset=True)).                                       *)
UserUpdate ==
    [set : SUBSET {"full_name", "is_active"}, full_name : {"n2"}, is_active : BOOLEAN]

user_admin_roles == {"admin", "developer"}

update_user(u, user_id, user_update) ==
    LET auth == get_current_active_user(u)
        updated == [users[user_id] EXCEPT
                       !.full_name = IF "full_name" \in user_update.set
                                     THEN user_update.full_name ELSE @,
                       !.is_active = IF "is_active" \in user_update.set
                                     THEN user_update.is_active ELSE @]
    IN IF auth # 200 THEN AuthResult(auth, {}, users)
       ELSE IF u # user_id /\ users[u].global_role \notin user_admin_roles
       THEN AuthResult(403, {}, users)
       ELSE IF user_id \notin DOMAIN users THEN AuthResult(404, {}, users)
       ELSE IF "is_active" \in user_update.set
               /\ users[u].global_role \notin user_admin_roles
       THEN AuthResult(403, {}, users)
       ELSE AuthResult(200, {updated}, [users EXCEPT ![user_id] = updated])

Login(u, password_ok) ==
    /\ tokens' = tokens \cup login(u, password_ok).body
    /\ UNCHANGED <<users, societies, user_societies, ids, in_flight,
                   assets, amcs, issues, issue_comments>>

RefreshToken(token) ==
    /\ tokens' = tokens \cup refresh_token(token).body
    /\ UNCHANGED <<users, societies, user_societies, ids, in_flight,
                   assets, amcs, issues, issue_comments>>

UpdateUser(token, user_id, user_update) ==
    /\ users' = IF get_current_user(token) # 200 THEN users
                ELSE update_user(token.sub, user_id, user_update).users
    /\ UNCHANGED <<tokens, societies, user_societies, ids, in_flight,
                   assets, amcs, issues, issue_comments>>

(* An authenticated request of the other routers: the handler runs for the *)
(* subject of a token that decodes.                                        *)
Bearer(token) == token \in tokens

(* Society 1, approved, with u1 an approved member and u2 an approved      *)
(* admin of it; every account active and nobody logged in.                 *)
InitAuth ==
    /\ users = Users0
    /\ tokens = {}
    /\ in_flight = {}
    /\ societies = [x \in {1} |-> [approval_status |-> "approved", approved_by |-> "dev"]]
    /\ ids = [society |-> 1, row |-> 4]
    /\ user_societies = {Row(1, "dev", 1, "admin", "approved", "dev", None),
                         Row(3, "u1", 1, "member", "approved", "dev", None),
                         Row(4, "u2", 1, "admin", "approved", "dev", None)}
    /\ assets = {}
    /\ amcs = {}
    /\ issues = {}
    /\ issue_comments = {}

NextAuth ==
    \/ \E u \in UserIds, password_ok \in BOOLEAN : Login(u, password_ok)
    \/ \E token \in Tokens : RefreshToken(token)
    \/ \E token \in Tokens, user_id \in UserIds, user_update \in UserUpdate :
          UpdateUser(token, user_id, user_update)
    \/ \E token \in Tokens, issue \in IssueCreate :
          Bearer(token) /\ CreateIssue(token.sub, issue)
    \/ \E token \in Tokens, id \in IssueIds :
          Bearer(token) /\ DeleteIssue(token.sub, id)
    \/ \E token \in Tokens, id \in IssueIds :
          Bearer(token) /\ AddComment(token.sub, id)
    \/ \E token \in Tokens, s \in SocietyFilters :
          Bearer(token) /\ ListIssues(token.sub, s)

SpecAuth == InitAuth /\ [][NextAuth]_vars

---------------------------------------------------------------------------
(* users.py: delete_user, with what models.py attaches to the user's row.  *)
(* The session deletes the user's memberships and comments (cascade="all,  *)
(* delete-orphan") and sets the user-side foreign key of the issues the    *)
(* user reported or is assigned to to NULL, as it does for a one-to-many   *)
(* relationship without delete cascade: Issue.reported_by is NOT NULL, so  *)
(* the flush of a user who reported an issue raises IntegrityError.  The   *)
(* DELETE of the user's row then takes every row whose foreign key to      *)
(* users.id is ondelete="CASCADE" with it: the memberships and societies   *)
(* whose approved_by is the user, and with such a society its rows.        *)

DbResult(code, user_table, society_table, membership_table, asset_table, amc_table, issue_table, comment_table) ==
    [code |-> code, users |-> user_table, societies |-> society_table,
     user_societies |-> membership_table, assets |-> asset_table,
     amcs |-> amc_table, issues |-> issue_table, issue_comments |-> comment_table]

DbRaise(code) ==
    DbResult(code, users, societies, user_societies, assets, amcs, issues, issue_comments)

require_admin_roles == {"developer", "admin"}

(* The delete of the user's row alone, as with foreign keys that have no   *)
(* ondelete and relationships that have no cascade                         *)
cascade_of_user_none(user_id) ==
    DbResult(204, [x \in DOMAIN users \ {user_id} |-> users[x]],
             societies, user_societies, assets, amcs, issues, issue_comments)

cascade_of_user(user_id) ==
    LET society_table ==
            [x \in {s \in DOMAIN societies : societies[s].approved_by # user_id}
                |-> societies[x]]
        issue_table ==
            {[i EXCEPT !.assigned_to = IF @ = user_id THEN None ELSE @] :
                i \in Cascade(issues, society_table)}
    IN DbResult(204,
                [x \in DOMAIN users \ {user_id} |-> users[x]],
                society_table,
                {m \in Cascade(user_societies, society_table) :
                    m.user_id # user_id /\ m.approved_by # user_id},
                Cascade(assets, society_table),
                Cascade(amcs, society_table),
                issue_table,
                {c \in issue_comments :
                    c.user_id # user_id /\ \E i \in issue_table : i.id = c.issue_id})

delete_user(u, user_id) ==
    LET auth == get_current_active_user(u)
    IN IF auth # 200 THEN DbRaise(auth)
       ELSE IF users[u].global_role \notin require_admin_roles THEN DbRaise(403)
       ELSE IF u = user_id THEN DbRaise(400)
       ELSE IF user_id \notin DOMAIN users THEN DbRaise(404)
       ELSE IF \E i \in issues : i.reported_by = user_id THEN DbRaise(500)
       ELSE cascade_of_user(user_id)

DeleteUser(u, user_id) ==
    LET result == delete_user(u, user_id)
    IN /\ users' = result.users
       /\ societies' = result.societies
       /\ user_societies' = result.user_societies
       /\ assets' = result.assets
       /\ amcs' = result.amcs
       /\ issues' = result.issues
       /\ issue_comments' = result.issue_comments
       /\ UNCHANGED <<ids, in_flight, tokens>>

(* The requests that create and delete the rows of users and societies,    *)
(* from a database holding society 1, created and so approved by dev,      *)
(* with or without an approved membership of u1 and an AMC.                *)
UserSeeds == {{}, {Row(2, "u1", 1, "member", "approved", "dev", None)}}

InitUsers ==
    /\ users = Users0
    /\ in_flight = {}
    /\ tokens = {}
    /\ assets = {}
    /\ issues = {}
    /\ issue_comments = {}
    /\ societies = [x \in {1} |-> [approval_status |-> "approved", approved_by |-> "dev"]]
    /\ \E seed \in UserSeeds :
          /\ ids = [society |-> 1, row |-> 1 + Cardinality(seed)]
          /\ user_societies =
                {Row(1, "dev", 1, "admin", "approved", "dev", None)} \cup seed
    /\ amcs \in {{}, {[id |-> "m1", society_id |-> 1, vendor_name |-> "n1"]}}

NextUsers ==
    \/ \E u \in UserIds, user_id \in UserIds : DeleteUser(u, user_id)
    \/ \E u \in UserIds : CreateSociety(u)
    \/ \E u \in UserIds, s \in SocietyIds : DeleteSociety(u, s)
    \/ \E u \in UserIds, s \in SocietyIds, role \in RaceRoles : JoinSociety(u, s, role)
    \/ \E u \in UserIds, s \in SocietyIds, id \in RowIds, d \in Decisions :
          ApproveMember(u, s, id, d.approved, d.rejection_reason)
    \/ \E u \in UserIds, issue \in IssueCreate : CreateIssue(u, issue)
    \/ \E u \in UserIds, asset \in AssetCreate : CreateAsset(u, asset)

SpecUsers == InitUsers /\ [][NextUsers]_vars

---------------------------------------------------------------------------
(* societies.py: approve_member as two steps of one request.  The handler  *)
(* awaits between its select (lines 645-694: the membership is loaded, the *)
(* approver's role resolved, the pending test made) and its end (lines     *)
(* 696-711: the assignments on the loaded object and the response), so     *)
(* another request's steps may come in between.  in_flight holds the       *)
(* requests that passed the tests, each with the object its session loaded.*)

ApproveMemberRead(q, u, s, id, approved, reason) ==
    /\ \A r \in in_flight : r.request # q
    /\ approve_member(u, s, id, approved, reason).code = 200
    /\ in_flight' = in_flight \cup
          {[request |-> q, user_id |-> u,
            membership |-> CHOOSE m \in RowsById(id) : TRUE,
            approved |-> approved, rejection_reason |-> reason]}
    /\ UNCHANGED <<users, tokens, societies, user_societies, ids,
                   assets, amcs, issues, issue_comments>>

(* Lines 696-711.  What the request writes, it writes to the row of the    *)
(* loaded object's primary key, as that row is by then.                    *)
ApproveMemberWrite(r) ==
    /\ r \in in_flight
    /\ in_flight' = in_flight \ {r}
    /\ user_societies' =
          {IF m.id = r.membership.id
           THEN stored_by_approve_member(
                    m, decide(m, r.user_id, r.approved, r.rejection_reason))
           ELSE m : m \in user_societies}
    /\ UNCHANGED <<users, tokens, societies, ids, assets, amcs, issues, issue_comments>>

NextDecide ==
    \/ \E u \in UserIds : CreateSociety(u)
    \/ \E u \in UserIds, s \in SocietyIds, role \in RaceRoles : JoinSociety(u, s, role)
    \/ \E q \in Requests, u \in UserIds, s \in SocietyIds, id \in RowIds, d \in Decisions :
          ApproveMemberRead(q, u, s, id, d.approved, d.rejection_reason)
    \/ \E r \in in_flight : ApproveMemberWrite(r)

SpecDecide == Init /\ [][NextDecide]_vars

---------------------------------------------------------------------------
(* Vocabulary of the claims *)

IsDeveloper(u) == users[u].global_role = "developer"

NonDevelopers == {u \in UserIds : ~IsDeveloper(u)}

HasApprovedMembership(u, s) ==
    \E m \in user_societies :
        m.user_id = u /\ m.society_id = s /\ m.approval_status = "approved"

SocietyApproved(s) == s \in DOMAIN societies /\ societies[s].approval_status = "approved"

SocietyPending(s) == s \in DOMAIN societies /\ societies[s].approval_status = "pending"

Untouched(result) ==
    result.societies = societies /\ result.user_societies = user_societies

(* Section 4.6: the society roles that may decide a request for a role *)
ApproverRoles(requested_role) ==
    CASE requested_role = "admin" -> {}
      [] requested_role = "manager" -> {"admin"}
      [] requested_role = "member" -> {"admin", "manager"}

---------------------------------------------------------------------------
(* C1: for every user u and society id s, check_society_access(u, s)      *)
(* returns True exactly when u is a developer, or s exists and is approved *)
(* and u has an approved membership row in s; otherwise it raises          *)
(* (403 or 404).                                                           *)
C1_AccessIff ==
    \A u \in UserIds, s \in SocietyIds :
        /\ check_society_access(u, s) = 200
              <=> (IsDeveloper(u) \/ (SocietyApproved(s) /\ HasApprovedMembership(u, s)))
        /\ check_society_access(u, s) \in {200, 403, 404}

(* A non-developer is let into an approved society, and the non-developer  *)
(* creator of a pending society, an approved admin of it, is refused.      *)
C1_Witness ==
    /\ \E u \in NonDevelopers, s \in SocietyIds : check_society_access(u, s) = 200
    /\ \E u \in NonDevelopers, s \in SocietyIds :
          /\ SocietyPending(s)
          /\ HasApprovedMembership(u, s)
          /\ check_society_access(u, s) = 403

(* C2: on a pending membership approve_member accepts the request of a     *)
(* developer for any requested role, and of a non-developer exactly when   *)
(* the role get_user_society_role resolves for the caller is one the table *)
(* of section 4.6 gives for the requested role; every other caller gets    *)
(* 403 and the tables stay as they are.                                    *)
C2_ApprovalTable ==
    \A u \in UserIds, s \in SocietyIds, d \in Decisions :
        \A m \in user_societies :
            m.approval_status = "pending" =>
                LET result == approve_member(u, s, m.id, d.approved, d.rejection_reason)
                    allowed == \/ IsDeveloper(u)
                               \/ get_user_society_role(u, s) \in ApproverRoles(m.role)
                IN IF allowed THEN result.code = 200
                   ELSE result.code = 403 /\ Untouched(result)

(* An approved manager is accepted on a pending member request of its      *)
(* society and refused on a pending manager request; the requester itself, *)
(* with no approved role, is refused.                                      *)
C2_Witness ==
    \E u \in NonDevelopers, s \in SocietyIds, m \in user_societies :
        /\ get_user_society_role(u, s) = "manager"
        /\ m.society_id = s /\ m.approval_status = "pending" /\ m.role = "member"
        /\ approve_member(u, s, m.id, TRUE, None).code = 200
        /\ approve_member(m.user_id, s, m.id, TRUE, None).code = 403

(* C3: in every step the approval_status of a membership row that exists   *)
(* before and after changes only along pending->approved,                  *)
(* pending->rejected and rejected->pending; an approved row keeps its      *)
(* status and a row that stays pending is not rewritten.                   *)
MembershipEdges ==
    {<<"pending", "approved">>, <<"pending", "rejected">>, <<"rejected", "pending">>}

C3_MembershipTransitions ==
    [][\A m \in user_societies :
          \A n \in user_societies' :
              n.id = m.id =>
                 /\ n.approval_status # m.approval_status =>
                        <<m.approval_status, n.approval_status>> \in MembershipEdges
                 /\ (m.approval_status = "pending" /\ n.approval_status = "pending")
                        => n = m]_vars

(* A row that was rejected with a reason has been requested again: it is   *)
(* pending and still carries the reason of its rejection.                  *)
C3_Witness ==
    \E m \in user_societies :
        m.approval_status = "pending" /\ m.rejection_reason # None

(* C4: a society that is approved stays approved in every step that keeps  *)
(* it, and on an approved society approve_society by a developer fails     *)
(* with 400 and update_society, whatever its body, leaves approval_status  *)
(* approved.                                                               *)
C4_SocietyApprovalOneWay ==
    /\ [][\A s \in DOMAIN societies :
             (SocietyApproved(s) /\ s \in DOMAIN societies')
                => societies'[s].approval_status = "approved"]_vars
    /\ [](\A s \in SocietyIds :
             SocietyApproved(s) =>
                /\ \A u \in UserIds, approved \in BOOLEAN :
                      IsDeveloper(u) =>
                         /\ approve_society(u, s, approved).code = 400
                         /\ Untouched(approve_society(u, s, approved))
                /\ \A u \in UserIds, body \in UpdateBodies :
                      update_society(u, s, body).societies[s].approval_status
                         = "approved")

(* A society created pending by a non-developer has been approved, a       *)
(* second approve_society fails and its admin's update_society succeeds.   *)
C4_Witness ==
    \E s \in SocietyIds, u \in NonDevelopers :
        /\ SocietyApproved(s)
        /\ \E m \in user_societies :
              m.user_id = u /\ m.society_id = s /\ m.role = "admin" /\ m.approved_by = u
        /\ approve_society("dev", s, TRUE).code = 400
        /\ \E body \in UpdateBodies :
              body.approval_status = "pending" /\ update_society(u, s, body).code = 200

(* C5: a step that takes a society from pending to approved is the         *)
(* approve_society request of a developer, and approve_society by a        *)
(* non-developer answers 403 and changes nothing.                          *)
C5_OnlyDeveloperApproves ==
    /\ [][\A s \in DOMAIN societies :
             (SocietyPending(s) /\ s \in DOMAIN societies'
                /\ societies'[s].approval_status = "approved")
                => \E u \in UserIds :
                      /\ IsDeveloper(u)
                      /\ approve_society(u, s, TRUE).code = 200
                      /\ societies' = approve_society(u, s, TRUE).societies
                      /\ user_societies' = user_societies]_vars
    /\ [](\A u \in NonDevelopers, s \in SocietyIds, approved \in BOOLEAN :
             /\ approve_society(u, s, approved).code = 403
             /\ Untouched(approve_society(u, s, approved)))

(* A society created by a non-developer stands approved by the developer.  *)
C5_Witness ==
    \E s \in SocietyIds, m \in user_societies :
        /\ SocietyApproved(s) /\ societies[s].approved_by = "dev"
        /\ m.society_id = s /\ m.user_id \in NonDevelopers
        /\ m.role = "admin" /\ m.approved_by = m.user_id

C7_PendingSocietyHidden ==
    \A u \in NonDevelopers, s \in SocietyIds :
        SocietyPending(s) =>
            /\ s \notin list_societies(u).body
            /\ \A f \in StatusFilters : get_society_members(u, s, f).code # 200
            /\ \A role \in JoinRoles :
                  /\ join_society(u, s, role).code = 403
                  /\ Untouched(join_society(u, s, role))

(* C8: a pending membership of society S that requests the manager role is *)
(* accepted by approve_member only from a developer or an approved admin   *)
(* of S; every other caller, whatever society id the path names, gets 403  *)
(* and the membership stays pending.                                       *)
C8_ManagerRequestNeedsAdminOfSociety ==
    \A u \in UserIds, s \in SocietyIds, d \in Decisions :
        \A m \in user_societies :
            (/\ m.approval_status = "pending"
             /\ m.role = "manager"
             /\ ~IsDeveloper(u)
             /\ ~\E a \in user_societies :
                    /\ a.user_id = u /\ a.society_id = m.society_id
                    /\ a.role = "admin" /\ a.approval_status = "approved")
            => LET result == approve_member(u, s, m.id, d.approved, d.rejection_reason)
               IN result.code = 403 /\ m \in result.user_societies

(* C9: when approve_member answers 200 on a pending membership, the row    *)
(* stored under its id is approved with approved_by the caller if the      *)
(* request approved it, and rejected, with the reason when one was given,  *)
(* if not; every other row is as before.                                   *)
C9_DecisionIsStored ==
    \A u \in UserIds, s \in SocietyIds, d \in Decisions :
        \A m \in user_societies :
            LET result == approve_member(u, s, m.id, d.approved, d.rejection_reason)
            IN (m.approval_status = "pending" /\ result.code = 200) =>
                  /\ \E n \in result.user_societies :
                        /\ n.id = m.id
                        /\ IF d.approved
                           THEN n.approval_status = "approved" /\ n.approved_by = u
                           ELSE /\ n.approval_status = "rejected"
                                /\ d.rejection_reason # None
                                      => n.rejection_reason = d.rejection_reason
                  /\ user_societies \ {m} \subseteq result.user_societies

(* C10: approve_member by a caller the approval rule authorizes, on a      *)
(* membership that is approved or rejected, answers 400 and leaves the     *)
(* tables as they are.                                                     *)
C10_OnlyPendingIsDecided ==
    \A u \in UserIds, s \in SocietyIds, d \in Decisions :
        \A m \in user_societies :
            (/\ m.approval_status \in {"approved", "rejected"}
             /\ \/ IsDeveloper(u)
                \/ get_user_society_role(u, s) \in ApproverRoles(m.role))
            => LET result == approve_member(u, s, m.id, d.approved, d.rejection_reason)
               IN result.code = 400 /\ Untouched(result)

(* A developer is refused with 400 on a rejected and on an approved        *)
(* membership.                                                             *)
C10_Witness ==
    \E m \in user_societies, n \in user_societies :
        /\ m.approval_status = "rejected" /\ n.approval_status = "approved"
        /\ approve_member("dev", m.society_id, m.id, TRUE, None).code = 400
        /\ approve_member("dev", n.society_id, n.id, FALSE, "why").code = 400

(* C11 as stated: join_society by u on s answers 400 whenever u has an     *)
(* approved or pending row in s, creates no row and leaves the row as it   *)
(* is.                                                                     *)
C11_DuplicateJoinIs400 ==
    \A u \in UserIds, s \in SocietyIds, role \in JoinRoles :
        (\E m \in Mappings(u, s) : m.approval_status \in {"approved", "pending"})
        => /\ join_society(u, s, role).code = 400
           /\ Untouched(join_society(u, s, role))

(* C11 amended: join_society by u on s, where u has an approved or pending *)
(* row in s, answers 400 if s is approved or u is a developer and 403 if s *)
(* is pending and u is no developer (the society is tested before the      *)
(* row); in both cases no row is created and the row is left as it is.     *)
C11_DuplicateJoinRefused ==
    \A u \in UserIds, s \in SocietyIds, role \in JoinRoles :
        (\E m \in Mappings(u, s) : m.approval_status \in {"approved", "pending"})
        => /\ join_society(u, s, role).code
                 = IF SocietyApproved(s) \/ IsDeveloper(u) THEN 400 ELSE 403
           /\ Untouched(join_society(u, s, role))

(* A non-developer with a pending request in an approved society is        *)
(* refused with 400, and the creator of a pending society with 403.        *)
C11_Witness ==
    /\ \E u \in NonDevelopers, s \in SocietyIds :
          /\ SocietyApproved(s)
          /\ \E m \in Mappings(u, s) : m.approval_status = "pending"
          /\ join_society(u, s, "member").code = 400
    /\ \E u \in NonDevelopers, s \in SocietyIds :
          /\ SocietyPending(s)
          /\ \E m \in Mappings(u, s) : m.approval_status = "approved"
          /\ join_society(u, s, "member").code = 403

(* C12: join_society by u on s, where the row of u in s is rejected,       *)
(* answers with that row: the same id, pending, rejected_at and            *)
(* rejected_by None; the table then holds one row of u in s, under that    *)
(* id and pending, and every other row as before.                          *)
C12_RerequestReusesRow ==
    \A u \in UserIds, s \in SocietyIds, role \in JoinRoles :
        \A m \in Mappings(u, s) :
            m.approval_status = "rejected" =>
                LET result == join_society(u, s, role)
                    mine == {n \in result.user_societies :
                                n.user_id = u /\ n.society_id = s}
                IN /\ result.code = 201
                   /\ \A b \in result.body :
                         /\ b.id = m.id /\ b.approval_status = "pending"
                         /\ b.rejected_at = None /\ b.rejected_by = None
                   /\ Cardinality(result.body) = 1
                   /\ Cardinality(mine) = 1
                   /\ \A n \in mine : n.id = m.id /\ n.approval_status = "pending"
                   /\ user_societies \ {m} \subseteq result.user_societies
                   /\ result.societies = societies

(* A rejected row stands in an approved society and its user's             *)
(* join_society is accepted.                                               *)
C12_Witness ==
    \E m \in user_societies :
        /\ m.approval_status = "rejected" /\ m.rejection_reason # None
        /\ SocietyApproved(m.society_id)
        /\ join_society(m.user_id, m.society_id, "manager").code = 201

(* C13: in every reachable state the table holds at most one row per       *)
(* (user_id, society_id), also when join_society requests of one user for  *)
(* one society, or a join and a create_society, run between each other's   *)
(* existence check and insert.                                             *)
C13_OneRowPerUserAndSociety ==
    \A u \in UserIds, s \in SocietyIds : Cardinality(Mappings(u, s)) <= 1

(* A request in flight found no row of its user in the society, the table  *)
(* now holds one (the other request's insert came first), and the insert   *)
(* of the request in flight is refused.                                    *)
C13_Witness ==
    \E r \in in_flight :
        /\ Mappings(r.user_id, r.society_id) # {}
        /\ NewRowId # 0
        /\ insert_membership(
              [id |-> NewRowId, user_id |-> r.user_id, society_id |-> r.society_id,
               role |-> r.role, approval_status |-> "pending",
               approved_by |-> None, rejection_reason |-> None]).code = 500

(* The caller may act in society s with one of the roles: a developer, or  *)
(* s approved and the caller's row in s approved with such a role          *)
Permitted(u, s, roles) ==
    \/ IsDeveloper(u)
    \/ /\ SocietyApproved(s)
       /\ \E m \in Mappings(u, s) : m.approval_status = "approved" /\ m.role \in roles

(* What the claims ask of a gated request: it succeeds only for a          *)
(* permitted caller, never answers a permitted caller 403, and answers     *)
(* every other caller 403 with the stored data as they were.               *)
Gated(permitted, code, success, unchanged) ==
    /\ code = success => permitted
    /\ permitted => code # 403
    /\ ~permitted => code = 403 /\ unchanged

C15_AmcGates ==
    \A u \in NonDevelopers, s \in DOMAIN societies :
        \A m \in Mappings(u, s) :
            (SocietyApproved(s) /\ m.approval_status = "approved") =>
                /\ \A amc \in AMCCreate :
                      amc.society_id = s =>
                         create_amc(u, amc).code
                            = IF m.role \in {"admin", "manager"} THEN 201 ELSE 403
                /\ \A a \in amcs :
                      a.society_id = s =>
                         /\ \A amc_update \in AMCUpdate :
                               update_amc(u, a.id, amc_update).code
                                  = IF m.role \in {"admin", "manager"} THEN 200 ELSE 403
                         /\ delete_amc(u, a.id).code
                               = IF m.role = "admin" THEN 204 ELSE 403

(* The caller resolves in society s to one of the roles: a developer       *)
(* resolves to admin, anyone else to the role of an approved row in s      *)
ResolvesTo(u, s, roles) ==
    \/ IsDeveloper(u) /\ "admin" \in roles
    \/ /\ ~IsDeveloper(u)
       /\ \E m \in user_societies :
             /\ m.user_id = u /\ m.society_id = s
             /\ m.approval_status = "approved" /\ m.role \in roles

IssuesUntouched(result) ==
    result.issues = issues /\ result.issue_comments = issue_comments

C17_DeleteIssueGate ==
    \A u \in UserIds, i \in issues :
        LET allowed == i.reported_by = u \/ ResolvesTo(u, i.society_id, {"admin"})
            result == delete_issue(u, i.id)
        IN /\ allowed => result.code = 204 /\ i \notin result.issues
           /\ ~allowed => result.code = 403 /\ IssuesUntouched(result)

(* An approved manager and the issue's assignee, neither of them its       *)
(* reporter, are refused; the reporter deletes.                            *)
C17_Witness ==
    \E i \in issues, u \in NonDevelopers, v \in NonDevelopers :
        /\ ResolvesTo(u, i.society_id, {"manager"})
        /\ i.reported_by # u
        /\ delete_issue(u, i.id).code = 403
        /\ i.assigned_to = v /\ i.reported_by # v
        /\ delete_issue(v, i.id).code = 403
        /\ delete_issue(i.reported_by, i.id).code = 204

(* Two callers hold the same row, by role and status, in society s, or     *)
(* both none                                                               *)
SameRow(u, v, s) ==
    {<<m.role, m.approval_status>> : m \in Mappings(u, s)}
        = {<<m.role, m.approval_status>> : m \in Mappings(v, s)}

SameMemberships(u, v) == \A s \in SocietyIds : SameRow(u, v, s)

(* Neither caller reported the issue or is assigned to it *)
Unrelated(u, v, i) == {i.reported_by, i.assigned_to} \cap {u, v} = {}

SameSocietyOutcome(u, v, s) ==
    /\ \A body \in UpdateBodies :
          update_society(u, s, body).code = update_society(v, s, body).code
    /\ delete_society(u, s).code = delete_society(v, s).code
    /\ \A d \in Decisions :
          /\ \A m \in user_societies :
                m.user_id \notin {u, v} =>
                   approve_member(u, s, m.id, d.approved, d.rejection_reason).code
                      = approve_member(v, s, m.id, d.approved, d.rejection_reason).code
          /\ \A mu \in Mappings(u, s), mv \in Mappings(v, s) :
                approve_member(u, s, mv.id, d.approved, d.rejection_reason).code
                   = approve_member(v, s, mu.id, d.approved, d.rejection_reason).code
    /\ \A f \in StatusFilters :
          get_society_members(u, s, f) = get_society_members(v, s, f)

SameAssetOutcome(u, v, s) ==
    /\ \A asset \in AssetCreate :
          asset.society_id = s => create_asset(u, asset).code = create_asset(v, asset).code
    /\ \A a \in assets :
          a.society_id = s =>
             /\ \A asset_update \in AssetUpdate :
                   update_asset(u, a.id, asset_update).code
                      = update_asset(v, a.id, asset_update).code
             /\ delete_asset(u, a.id).code = delete_asset(v, a.id).code
             /\ get_asset(u, a.id) = get_asset(v, a.id)
    /\ list_assets(u, s) = list_assets(v, s)

SameAmcOutcome(u, v, s) ==
    /\ \A amc \in AMCCreate :
          amc.society_id = s => create_amc(u, amc).code = create_amc(v, amc).code
    /\ \A a \in amcs :
          a.society_id = s =>
             /\ \A amc_update \in AMCUpdate :
                   update_amc(u, a.id, amc_update).code = update_amc(v, a.id, amc_update).code
             /\ delete_amc(u, a.id).code = delete_amc(v, a.id).code
             /\ get_amc(u, a.id) = get_amc(v, a.id)
    /\ list_amcs(u, s) = list_amcs(v, s)

SameIssueOutcome(u, v, s) ==
    /\ \A issue \in IssueCreate :
          issue.society_id = s => create_issue(u, issue).code = create_issue(v, issue).code
    /\ \A i \in issues :
          (i.society_id = s /\ Unrelated(u, v, i)) =>
             /\ \A issue_update \in IssueUpdate :
                   update_issue(u, i.id, issue_update).code
                      = update_issue(v, i.id, issue_update).code
             /\ delete_issue(u, i.id).code = delete_issue(v, i.id).code
             /\ get_issue(u, i.id) = get_issue(v, i.id)
             /\ add_comment(u, i.id).code = add_comment(v, i.id).code
             /\ get_comments(u, i.id) = get_comments(v, i.id)
    /\ list_issues(u, s) = list_issues(v, s)

(* C18: two non-developers of different global roles who hold the same row *)
(* in a society, and neither of whom reported the target issue or is       *)
(* assigned to it, get the same outcome from every request scoped to that  *)
(* society; with the same rows in every society also from the lists        *)
(* without a society id.                                                   *)
C18_GlobalRoleGivesNoSocietyPower ==
    \A u \in NonDevelopers, v \in NonDevelopers :
        users[u].global_role # users[v].global_role =>
            /\ \A s \in DOMAIN societies :
                  SameRow(u, v, s) =>
                     /\ SameSocietyOutcome(u, v, s)
                     /\ SameAssetOutcome(u, v, s)
                     /\ SameAmcOutcome(u, v, s)
                     /\ SameIssueOutcome(u, v, s)
            /\ SameMemberships(u, v) =>
                  /\ list_societies(u) = list_societies(v)
                  /\ list_assets(u, 0) = list_assets(v, 0)
                  /\ list_amcs(u, 0) = list_amcs(v, 0)
                  /\ list_issues(u, 0) = list_issues(v, 0)

(* A global member and a global admin, both approved managers of a society *)
(* with an asset and an issue that neither reported: the global admin      *)
(* updates both and is refused delete_asset, delete_issue, update_society  *)
(* and delete_society, as the global member is.                            *)
C18_Witness ==
    \E u \in NonDevelopers, v \in NonDevelopers, s \in DOMAIN societies :
        /\ users[u].global_role = "member" /\ users[v].global_role = "admin"
        /\ ResolvesTo(u, s, {"manager"}) /\ ResolvesTo(v, s, {"manager"})
        /\ \E a \in assets :
              /\ a.society_id = s
              /\ update_asset(v, a.id, [name |-> "n2", category_id |-> Unset]).code = 200
              /\ delete_asset(v, a.id).code = 403
        /\ \E i \in issues :
              /\ i.society_id = s /\ Unrelated(u, v, i)
              /\ update_issue(v, i.id, [assigned_to |-> Unset, status |-> "resolved"]).code = 200
              /\ delete_issue(v, i.id).code = 403
        /\ update_society(v, s, [name |-> "n2", approval_status |-> Unset]).code = 403
        /\ delete_society(v, s).code = 403

(* The rows of society s among a set of issues, assets or AMCs *)
RowsOf(s, rows) == {row \in rows : row.society_id = s}

(* C19: a non-developer who does not pass check_society_access for society *)
(* s (s not approved, or no approved row of the caller in s) gets no       *)
(* issue, comment, asset or AMC of s from any read, with the society id    *)
(* given or omitted.                                                       *)
C19_NoReadWithoutAccess ==
    \A u \in NonDevelopers, s \in DOMAIN societies :
        ~(SocietyApproved(s) /\ HasApprovedMembership(u, s)) =>
            /\ \A f \in {0, s} :
                  /\ RowsOf(s, list_issues(u, f).body) = {}
                  /\ RowsOf(s, list_assets(u, f).body) = {}
                  /\ RowsOf(s, list_amcs(u, f).body) = {}
            /\ \A i \in RowsOf(s, issues) :
                  /\ get_issue(u, i.id).code # 200
                  /\ get_comments(u, i.id).code # 200
            /\ \A a \in RowsOf(s, assets) : get_asset(u, a.id).code # 200
            /\ \A a \in RowsOf(s, amcs) : get_amc(u, a.id).code # 200

(* A denied request: 403 and the tables it leaves are the ones it found *)
Locked(result, unchanged) == result.code = 403 /\ unchanged

LockedOutOfSocieties(u) ==
    /\ Locked(create_society(u), Untouched(create_society(u)))
    /\ Locked(list_societies(u), Untouched(list_societies(u)))
    /\ \A s \in SocietyIds :
          /\ \A approved \in BOOLEAN :
                Locked(approve_society(u, s, approved),
                       Untouched(approve_society(u, s, approved)))
          /\ \A body \in UpdateBodies :
                Locked(update_society(u, s, body), Untouched(update_society(u, s, body)))
          /\ Locked(delete_society(u, s), Untouched(delete_society(u, s)))
          /\ \A role \in JoinRoles :
                Locked(join_society(u, s, role), Untouched(join_society(u, s, role)))
          /\ \A m \in user_societies, d \in Decisions :
                Locked(approve_member(u, s, m.id, d.approved, d.rejection_reason),
                       Untouched(approve_member(u, s, m.id, d.approved,
                                                d.rejection_reason)))
          /\ \A f \in StatusFilters :
                Locked(get_society_members(u, s, f),
                       Untouched(get_society_members(u, s, f)))

LockedOutOfAssets(u) ==
    /\ \A asset \in AssetCreate :
          Locked(create_asset(u, asset), create_asset(u, asset).assets = assets)
    /\ \A id \in AssetIds :
          /\ \A asset_update \in AssetUpdate :
                Locked(update_asset(u, id, asset_update),
                       update_asset(u, id, asset_update).assets = assets)
          /\ Locked(delete_asset(u, id), delete_asset(u, id).assets = assets)
          /\ get_asset(u, id).code = 403
    /\ \A s \in SocietyFilters : list_assets(u, s).code = 403
    /\ \A amc \in AMCCreate :
          Locked(create_amc(u, amc), create_amc(u, amc).amcs = amcs)
    /\ \A id \in AmcIds :
          /\ \A amc_update \in AMCUpdate :
                Locked(update_amc(u, id, amc_update),
                       update_amc(u, id, amc_update).amcs = amcs)
          /\ Locked(delete_amc(u, id), delete_amc(u, id).amcs = amcs)
          /\ get_amc(u, id).code = 403
    /\ \A s \in SocietyFilters : list_amcs(u, s).code = 403

LockedOutOfIssues(u) ==
    /\ \A issue \in IssueCreate :
          Locked(create_issue(u, issue), IssuesUntouched(create_issue(u, issue)))
    /\ \A id \in IssueIds :
          /\ \A issue_update \in IssueUpdate :
                Locked(update_issue(u, id, issue_update),
                       IssuesUntouched(update_issue(u, id, issue_update)))
          /\ Locked(delete_issue(u, id), IssuesUntouched(delete_issue(u, id)))
          /\ Locked(add_comment(u, id), IssuesUntouched(add_comment(u, id)))
          /\ get_issue(u, id).code = 403
          /\ get_comments(u, id).code = 403
    /\ \A s \in SocietyFilters : list_issues(u, s).code = 403

LockedOutOfUsers(u) ==
    \A user_id \in UserIds, user_update \in UserUpdate :
        Locked(update_user(u, user_id, user_update),
               update_user(u, user_id, user_update).users = users)

(* While the account of a token's subject is deactivated, the token is     *)
(* refused by every authenticated request and buys no new token.           *)
DeactivatedIsLockedOut ==
    \A token \in tokens :
        ~users[token.sub].is_active =>
            /\ get_current_user(token) = 403
            /\ LockedOutOfSocieties(token.sub)
            /\ LockedOutOfAssets(token.sub)
            /\ LockedOutOfIssues(token.sub)
            /\ LockedOutOfUsers(token.sub)
            /\ refresh_token(token).code = 401 /\ refresh_token(token).body = {}
            /\ login(token.sub, TRUE).code = 403 /\ login(token.sub, TRUE).body = {}

(* A user whose global role is neither admin nor developer is refused any  *)
(* request that sets is_active on the own account.                         *)
NoSelfActivation ==
    \A u \in UserIds, user_update \in UserUpdate :
        (users[u].global_role \notin {"admin", "developer"}
            /\ "is_active" \in user_update.set) =>
           /\ update_user(u, u, user_update).code = 403
           /\ update_user(u, u, user_update).users = users

(* A deactivated account becomes active again only by update_user of       *)
(* another, active user whose global role is admin or developer.           *)
ReactivatedByAnother ==
    \A u \in UserIds :
        (~users[u].is_active /\ users'[u].is_active) =>
            \E c \in UserIds \ {u}, user_update \in UserUpdate :
                /\ users[c].is_active
                /\ users[c].global_role \in {"admin", "developer"}
                /\ "is_active" \in user_update.set /\ user_update.is_active
                /\ update_user(c, u, user_update).code = 200
                /\ users' = update_user(c, u, user_update).users

(* C20: from the deactivation of user U by update_user until is_active is  *)
(* set back, every authenticated request with a token of U, issued before  *)
(* or not, answers 403 and changes nothing, and refresh_token and login    *)
(* issue U no token; U cannot set is_active back: only another active      *)
(* admin or developer can, and a user who is neither is refused every      *)
(* change of the own is_active.                                            *)
C20_DeactivatedUntilReactivated ==
    /\ [](DeactivatedIsLockedOut /\ NoSelfActivation)
    /\ [][ReactivatedByAnother]_vars

(* u1, an approved member holding tokens from its login, has been          *)
(* deactivated: its create_issue answers 403, its refresh 401, its own     *)
(* reactivation 403, and dev can set is_active back.                       *)
C20_Witness ==
    \E token \in tokens :
        /\ token.type = "refresh"
        /\ ~users[token.sub].is_active
        /\ HasApprovedMembership(token.sub, 1)
        /\ create_issue(token.sub, [society_id |-> 1]).code = 403
        /\ refresh_token(token).code = 401
        /\ update_user(token.sub, token.sub,
              [set |-> {"is_active"}, full_name |-> "n2", is_active |-> TRUE]).code = 403
        /\ update_user("dev", token.sub,
              [set |-> {"is_active"}, full_name |-> "n2", is_active |-> TRUE]).code = 200

(* Every membership references a stored user and a stored society, and     *)
(* every issue, asset and AMC a stored society.                            *)
ReferencesExist ==
    /\ \A m \in user_societies :
          m.user_id \in DOMAIN users /\ m.society_id \in DOMAIN societies
    /\ \A row \in issues \cup assets \cup amcs : row.society_id \in DOMAIN societies

(* What a successful delete_society(s) or delete_user(user_id) leaves *)
DeletesLeaveNothing ==
    \A u \in UserIds :
        /\ \A s \in SocietyIds :
              delete_society(u, s).code = 204 =>
                 /\ s \notin DOMAIN delete_society(u, s).societies
                 /\ \A m \in delete_society(u, s).user_societies : m.society_id # s
        /\ \A user_id \in UserIds :
              delete_user(u, user_id).code = 204 =>
                 /\ user_id \notin DOMAIN delete_user(u, user_id).users
                 /\ \A m \in delete_user(u, user_id).user_societies :
                       m.user_id # user_id

(* C21: in every reachable state each membership row references an         *)
(* existing user and an existing society and each issue, asset and AMC an  *)
(* existing society; a successful delete_society(S) leaves no row of S and *)
(* a successful delete_user(U) no membership of U.                         *)
C21_NoDanglingRows == ReferencesExist /\ DeletesLeaveNothing

(* A society holding a membership of u1, an issue, an asset and an AMC is  *)
(* about to be deleted by dev, and u1, holding a membership, about to be   *)
(* deleted by u2.                                                          *)
C21_Witness ==
    \E s \in DOMAIN societies :
        /\ \E m \in user_societies : m.society_id = s /\ m.user_id = "u1"
        /\ RowsOf(s, issues) # {} /\ RowsOf(s, assets) # {} /\ RowsOf(s, amcs) # {}
        /\ delete_society("dev", s).code = 204
        /\ delete_user("u2", "u1").code = 204

(* C25: a successful delete_user(U) removes U's own membership rows and    *)
(* nothing else: the memberships of every other user, those approved by U  *)
(* included, and every society, those approved by U included, are left as  *)
(* they were.                                                              *)
C25_DeleteUserOwnRowsOnly ==
    \A u \in UserIds, user_id \in UserIds :
        delete_user(u, user_id).code = 204 =>
           /\ delete_user(u, user_id).societies = societies
           /\ delete_user(u, user_id).user_societies =
                 {m \in user_societies : m.user_id # user_id}

(* C29: in every reachable state each stored society has at least one      *)
(* membership whose role is admin and whose approval_status is approved.   *)
C29_EverySocietyHasAdmin ==
    \A s \in DOMAIN societies :
        \E m \in user_societies :
            m.society_id = s /\ m.role = "admin" /\ m.approval_status = "approved"

(* C22: require_society_permission answers a caller who is not a developer *)
(* 404 for a society that does not exist and 403 for a society that is not *)
(* approved, whatever membership the caller holds and whatever roles are   *)
(* allowed; update_society and delete_society answer the same and store    *)
(* nothing, so the creator of a pending society can neither update nor     *)
(* delete it while it is pending.                                          *)
C22_AccessBeforeRole ==
    \A u \in NonDevelopers, s \in SocietyIds :
        LET refusal == IF ~SocietyExists(s) THEN 404 ELSE 403
        IN (~SocietyExists(s) \/ ~SocietyApproved(s)) =>
              /\ \A allowed_roles \in SUBSET Roles :
                    require_society_permission(u, s, allowed_roles) = refusal
              /\ \A body \in UpdateBodies :
                    /\ update_society(u, s, body).code = refusal
                    /\ Untouched(update_society(u, s, body))
              /\ delete_society(u, s).code = refusal
              /\ Untouched(delete_society(u, s))

(* The creator of a pending society, its approved admin, is refused with   *)
(* 403 where the role alone would admit, a developer may approve the       *)
(* society, and the same caller gets 404 for an id that is not stored.     *)
C22_Witness ==
    \E u \in NonDevelopers, s \in SocietyIds, missing \in SocietyIds :
        /\ SocietyPending(s)
        /\ get_user_society_role(u, s) = "admin"
        /\ require_society_permission(u, s, {"admin"}) = 403
        /\ update_society(u, s, [name |-> "n2", approval_status |-> Unset]).code = 403
        /\ delete_society(u, s).code = 403
        /\ approve_society("dev", s, TRUE).code = 200
        /\ ~SocietyExists(missing)
        /\ require_society_permission(u, missing, {"admin"}) = 404

(* C23: of two approve_member requests that both passed the pending test   *)
(* on one membership, each leaves the row in its own decision when it      *)
(* ends, so that the row passes through approved and rejected in the order *)
(* in which the two end.                                                   *)
C23_DecisionsInCommitOrder ==
    [][\A r \in in_flight :
          r \notin in_flight' =>
             \A m \in user_societies' :
                 m.id = r.membership.id =>
                    m.approval_status = IF r.approved THEN "approved" ELSE "rejected"]_vars

C26_UpdateIssueNeedsMembership ==
    \A u \in UserIds, i \in issues, issue_update \in IssueUpdate :
        update_issue(u, i.id, issue_update).code = 200 =>
            IsDeveloper(u) \/ HasApprovedMembership(u, i.society_id)

(* The answers of join_society on a rejected row and of approve_member on  *)
(* a pending one carry the role of the stored row, whatever role the       *)
(* request names, and so do the tables they leave.                         *)
RoleKeptByHandlers ==
    \A u \in UserIds, s \in SocietyIds, m \in user_societies :
        /\ \A role \in JoinRoles :
              LET result == join_society(u, s, role)
              IN (m.user_id = u /\ m.society_id = s /\ result.code = 201) =>
                    /\ \A b \in result.body : b.id = m.id /\ b.role = m.role
                    /\ \A n \in result.user_societies : n.id = m.id => n.role = m.role
        /\ \A d \in Decisions :
              LET result == approve_member(u, s, m.id, d.approved, d.rejection_reason)
              IN result.code = 200 =>
                    /\ \A b \in result.body : b.id = m.id /\ b.role = m.role
                    /\ \A n \in result.user_societies : n.id = m.id => n.role = m.role

(* A step leaves the role of every membership row it keeps *)
RoleKeptByStep ==
    \A m \in user_societies :
        \A n \in user_societies' : n.id = m.id => n.role = m.role

(* C27: the role of a membership row never changes after the row's         *)
(* creation: approval, rejection and a new request on a rejected row keep  *)
(* it, and the role a re-request names is ignored.                         *)
C27_RoleNeverChanges == []RoleKeptByHandlers /\ [][RoleKeptByStep]_vars

(* A row rejected as an admin request has been requested again under the  *)
(* role member (it is pending and still carries the reason of its          *)
(* rejection) and is still an admin request, which dev is about to decide  *)
(* as one.                                                                 *)
C27_Witness ==
    \E m \in user_societies :
        /\ m.approval_status = "pending" /\ m.rejection_reason # None
        /\ m.role = "admin"
        /\ join_society(m.user_id, m.society_id, "member").code = 400
        /\ approve_member("dev", m.society_id, m.id, TRUE, None).code = 200
        /\ \A b \in approve_member("dev", m.society_id, m.id, TRUE, None).body :
               b.role = "admin"

(* C28: approve_society by a developer with approved = false on a pending  *)
(* society answers 200 with the society as it is stored and leaves its     *)
(* approval_status and approved_by, and every other row, as they were; no  *)
(* stored society has a status other than pending or approved.             *)
C28_NoSocietyRejection ==
    /\ \A s \in DOMAIN societies : societies[s].approval_status \in {"pending", "approved"}
    /\ \A u \in UserIds, s \in SocietyIds :
          (IsDeveloper(u) /\ SocietyPending(s)) =>
             LET result == approve_society(u, s, FALSE)
             IN /\ result.code = 200
                /\ result.body = {societies[s]}
                /\ result.societies = societies
                /\ result.user_societies = user_societies

(* A society created by a non-developer is pending with no approver, and   *)
(* dev's approve_society with approved = false answers 200, after which    *)
(* the society can still be approved.                                      *)
C28_Witness ==
    \E s \in SocietyIds :
        /\ SocietyPending(s) /\ societies[s].approved_by = None
        /\ \E m \in user_societies : m.society_id = s /\ m.user_id \in NonDevelopers
        /\ approve_society("dev", s, FALSE).code = 200
        /\ approve_society("dev", s, FALSE).societies[s].approval_status = "pending"
        /\ approve_society("dev", s, TRUE).code = 200

(* A stored issue that is resolved has its resolved_date; create_issue     *)
(* answers with an open issue without one; a successful update_issue sets  *)
(* resolved_date when the status it is sent is resolved and the stored     *)
(* status is another, and leaves it as stored in every other case.         *)
ResolvedDateFollowsStatus ==
    /\ \A i \in issues : i.status = "resolved" => i.resolved_date # None
    /\ \A u \in UserIds, issue \in IssueCreate :
          create_issue(u, issue).code = 201 =>
             \A b \in create_issue(u, issue).body :
                 b.status = "open" /\ b.resolved_date = None
    /\ \A u \in UserIds, i \in issues, issue_update \in IssueUpdate :
          LET result == update_issue(u, i.id, issue_update)
              resolving == issue_update.status = "resolved" /\ i.status # "resolved"
          IN result.code = 200 =>
                /\ "resolved_date" \in issue_update_data(i, issue_update) <=> resolving
                /\ \A b \in result.body :
                      /\ b.resolved_date = IF resolving THEN utcnow ELSE i.resolved_date
                      /\ i.resolved_date # None => b.resolved_date # None
                      /\ b.status = "resolved" => b.resolved_date # None

(* A step keeps the resolved_date of every issue it keeps and that has one *)
ResolvedDateKeptByStep ==
    \A i \in issues :
        \A j \in issues' :
            (j.id = i.id /\ i.resolved_date # None) => j.resolved_date # None

(* C30: every resolved issue has a resolved_date; an issue starts open     *)
(* without one; update_issue sets it exactly when the status changes to    *)
(* resolved from another status, and no update clears it.                  *)
C30_ResolvedDate == []ResolvedDateFollowsStatus /\ [][ResolvedDateKeptByStep]_vars

(* An issue was resolved and opened again: it is open and keeps its        *)
(* resolved_date, and its reporter is about to resolve it once more.       *)
C30_Witness ==
    \E i \in issues :
        /\ i.status = "open" /\ i.resolved_date # None
        /\ update_issue(i.reported_by, i.id,
              [assigned_to |-> Unset, status |-> "resolved"]).code = 200
====
